---- MODULE Spec2Model ----
(***************************************************************************)
(* Model of main.go: the dict template helper, the startup loop that       *)
(* composes one html/template unit per page and stores it in the cache,    *)
(* the registration of the two routes, and the request handlers that       *)
(* execute the cached units.                                               *)
(*                                                                         *)
(* Go pointers to template.Template are modelled as indices into a heap   *)
(* of units; 0 is the nil pointer.  The template files are an input of the *)
(* program: every file is either unreadable, syntactically broken, or      *)
(* readable with a set of {{define}}d blocks.                              *)
(***************************************************************************)
EXTENDS Integers, Sequences, FiniteSets, TLC

VARIABLES fs, pc, i, k, goTpl, heap, cache, parseErr, routes, listening, reqs,
          args, result, dpc

vars == <<fs, pc, i, k, goTpl, heap, cache, parseErr, routes, listening, reqs,
          args, result, dpc>>

mainVars == <<fs, pc, i, k, goTpl, heap, cache, parseErr, routes, listening, reqs>>
dictVars == <<args, result, dpc>>

(***************************************************************************)
(* Bounds                                                                  *)
(***************************************************************************)
MaxReq == 2
MaxArgs == 4

(***************************************************************************)
(* dict (main.go:34-47)                                                    *)
(***************************************************************************)
\* interface{} values: a dynamic type tag and a payload
StrVal(x) == [t |-> "string", s |-> x, n |-> 0]
IntVal(x) == [t |-> "int", s |-> "", n |-> x]
NilVal == [t |-> "nil", s |-> "", n |-> 0]

Values == {StrVal("a"), StrVal("b"), IntVal(1), IntVal(2), NilVal}

\* values[i].(string): ok is true exactly for a dynamic type of string
IsString(v) == v.t = "string"

\* make(map[string]interface{}, n): an empty, non-nil map
EmptyMap == [x \in {} |-> NilVal]

\* dict[key] = value
MapPut(m, key, v) == [x \in (DOMAIN m) \cup {key} |-> IF x = key THEN v ELSE m[x]]

\* return nil, errors.New(msg)
DictErr(msg) == [err |-> msg, isNil |-> TRUE, m |-> EmptyMap]

\* return dict, nil
DictOk(m) == [err |-> "", isNil |-> FALSE, m |-> m]

\* mutant of MapPutKey: an existing key keeps its first value
MapPutKeyFirstWins(m, values, j) ==
    IF values[j].s \in DOMAIN m THEN m ELSE MapPut(m, values[j].s, values[j + 1])

\* dict[key] = values[i+1] with key = values[i].(string)
MapPutKey(m, values, j) == MapPut(m, values[j].s, values[j + 1])

\* mutant of KeyOk: the type assertion is not checked
KeyOkUnchecked(values, j) == TRUE

\* key, ok := values[i].(string)
KeyOk(values, j) == IsString(values[j])

\* the loop  for i := 0; i < len(values); i += 2  (indices are 1-based here)
RECURSIVE dictLoop(_, _, _)
dictLoop(values, j, m) ==
    IF j > Len(values) THEN DictOk(m)
    ELSE IF ~KeyOk(values, j) THEN DictErr("dict keys must be strings")
    ELSE dictLoop(values, j + 2, MapPutKey(m, values, j))

dict(values) ==
    IF Len(values) % 2 # 0 THEN DictErr("invalid dict call")
    ELSE dictLoop(values, 1, EmptyMap)

NoResult == [err |-> "pending", isNil |-> TRUE, m |-> EmptyMap]

RECURSIVE SeqsUpTo(_)
SeqsUpTo(n) ==
    IF n = 0 THEN {<<>>}
    ELSE SeqsUpTo(n - 1) \cup [1..n -> Values]

(***************************************************************************)
(* Template files read by ParseFiles (main.go:56-59, 86-90)                *)
(***************************************************************************)
Blocks == {"main", "sidebar", "headline"}

FileNames == {"layout.tmpl", "sidebar.tmpl", "home.tmpl", "about.tmpl", "headline.tmpl"}

PageIds == {"home", "about"}

\* a readable, well-formed file: the blocks it defines, the blocks its
\* markup invokes with {{template}}, and whether its markup calls dict
OkFile(defs, uses, usesDict) ==
    [status |-> "ok", defs |-> defs, uses |-> uses, usesDict |-> usesDict]

MissingFile == [status |-> "missing", defs |-> {}, uses |-> {}, usesDict |-> FALSE]

BadFile == [status |-> "syntax", defs |-> {}, uses |-> {}, usesDict |-> FALSE]

\* the files as the comments of main.go describe them (block structure table)
RepoLayout == OkFile({}, {"main", "sidebar"}, FALSE)
RepoSidebar == OkFile({"sidebar"}, {}, FALSE)
RepoPage == OkFile({"main"}, {"headline"}, TRUE)
RepoHeadline == OkFile({"headline"}, {}, FALSE)

RepoFs ==
    [f \in FileNames |->
        CASE f = "layout.tmpl" -> RepoLayout
          [] f = "sidebar.tmpl" -> RepoSidebar
          [] f = "headline.tmpl" -> RepoHeadline
          [] OTHER -> RepoPage]

\* the contents each file may have when the program starts
FileChoices(f) ==
    CASE f = "layout.tmpl" -> {RepoLayout, MissingFile, BadFile}
      [] f = "sidebar.tmpl" ->
            {RepoSidebar, OkFile({}, {}, FALSE), OkFile({"sidebar", "main"}, {}, FALSE),
             MissingFile, BadFile}
      [] f = "headline.tmpl" ->
            {RepoHeadline, OkFile({}, {}, FALSE), OkFile({"headline", "main"}, {}, FALSE),
             MissingFile, BadFile}
      [] OTHER -> {RepoPage, OkFile({}, {}, FALSE), MissingFile, BadFile}

FileSystems == {f \in [FileNames -> UNION {FileChoices(n) : n \in FileNames}] :
                    \A n \in FileNames : f[n] \in FileChoices(n)}

(***************************************************************************)
(* Startup: page list, cache, composition loop (main.go:22-65)             *)
(***************************************************************************)
\* mutant of Pages: the page list lacks "about"
PagesHomeOnly == <<"home">>

\* pages := []string{"home", "about"}
Pages == <<"home", "about">>

\* funcMap := template.FuncMap{"dict": ...}
funcMap == {"dict"}

\* dir+"/templates/pages/"+page+".tmpl"
PageFile(page) == IF page = "home" THEN "home.tmpl" ELSE "about.tmpl"

\* the file arguments of ParseFiles, in order
ParseFilesArgs(page) == <<"layout.tmpl", "sidebar.tmpl", PageFile(page), "headline.tmpl">>

\* template.New(name): a unit without functions and without parsed templates.
\* A unit records its name, its function map, the files parsed into it, for
\* every block the file that defined it, and whether Execute has escaped it.
NewUnit(name) ==
    [name |-> name, funcs |-> {}, parsed |-> <<>>, tmpl |-> [b \in Blocks |-> "none"],
     escaped |-> "no"]

\* mutant of ParseOk: a syntax error in a file is not reported
ParseOkLax(file, unit) == file.status # "missing"

\* Parse of one file succeeds when the file is readable, well formed, and
\* every function its markup calls is already in the unit's function map
ParseOk(file, unit) ==
    /\ file.status = "ok"
    /\ file.usesDict => "dict" \in unit.funcs

\* Parse of one file into a unit: every block the file defines is
\* associated with the unit under its name, replacing an earlier definition
ParseInto(unit, fname, file) ==
    [unit EXCEPT !.parsed = Append(@, fname),
                 !.tmpl = [b \in Blocks |-> IF b \in file.defs THEN fname ELSE @[b]]]

NoReq == [st |-> "idle", path |-> "", method |-> "", pattern |-> "",
          unit |-> 0, page |-> "", ctxNil |-> TRUE, ctx |-> {}]

InitMain ==
    /\ pc = "getwd"
    /\ i = 1
    /\ k = 1
    /\ goTpl = 0
    /\ heap = <<>>
    /\ cache = [p \in PageIds |-> 0]
    /\ parseErr = FALSE
    /\ routes = {}
    /\ listening = FALSE
    /\ reqs = [r \in 1..MaxReq |-> NoReq]

InitDictIdle ==
    /\ args = <<>>
    /\ result = NoResult
    /\ dpc = "off"

Init ==
    /\ fs \in FileSystems
    /\ InitMain
    /\ InitDictIdle

\* dir, err := os.Getwd(); a failure ends the process (log.Fatal)
Getwd ==
    /\ pc = "getwd"
    /\ \E ok \in BOOLEAN : pc' = IF ok THEN "new" ELSE "exited"
    /\ UNCHANGED <<fs, i, k, goTpl, heap, cache, parseErr, routes, listening, reqs>>
    /\ UNCHANGED dictVars

\* mutant of TemplateNew: the unit is created once and shared by all pages
TemplateNewShared ==
    /\ pc = "new"
    /\ heap' = IF heap = <<>> THEN <<NewUnit("layout.tmpl")>> ELSE heap
    /\ goTpl' = 1
    /\ pc' = "funcs"
    /\ UNCHANGED <<fs, i, k, cache, parseErr, routes, listening, reqs>>
    /\ UNCHANGED dictVars

\* goTpl := template.New("layout.tmpl")
TemplateNew ==
    /\ pc = "new"
    /\ heap' = Append(heap, NewUnit("layout.tmpl"))
    /\ goTpl' = Len(heap) + 1
    /\ pc' = "funcs"
    /\ UNCHANGED <<fs, i, k, cache, parseErr, routes, listening, reqs>>
    /\ UNCHANGED dictVars

\* mutant of Funcs: the function map is not attached before parsing
FuncsSkipped ==
    /\ pc = "funcs"
    /\ k' = 1
    /\ pc' = "parse"
    /\ UNCHANGED <<fs, i, goTpl, heap, cache, parseErr, routes, listening, reqs>>
    /\ UNCHANGED dictVars

\* .Funcs(funcMap)
Funcs ==
    /\ pc = "funcs"
    /\ heap' = [heap EXCEPT ![goTpl].funcs = @ \cup funcMap]
    /\ k' = 1
    /\ pc' = "parse"
    /\ UNCHANGED <<fs, i, goTpl, cache, parseErr, routes, listening, reqs>>
    /\ UNCHANGED dictVars

\* ParseFiles reads and parses its arguments one after the other: the k-th
\* file is parsed into the unit
ParseFileOk ==
    /\ pc = "parse"
    /\ LET fname == ParseFilesArgs(Pages[i])[k]
       IN /\ ParseOk(fs[fname], heap[goTpl])
          /\ heap' = [heap EXCEPT ![goTpl] = ParseInto(@, fname, fs[fname])]
    /\ IF k = Len(ParseFilesArgs(Pages[i]))
          THEN pc' = "store" /\ k' = k
          ELSE pc' = "parse" /\ k' = k + 1
    /\ UNCHANGED <<fs, i, goTpl, cache, parseErr, routes, listening, reqs>>
    /\ UNCHANGED dictVars

\* mutant of ParseFileFail: the error is ignored and the loop goes on with
\* the next page
ParseFileFailContinue ==
    /\ pc = "parse"
    /\ ~ParseOk(fs[ParseFilesArgs(Pages[i])[k]], heap[goTpl])
    /\ goTpl' = 0
    /\ parseErr' = TRUE
    /\ IF i = Len(Pages) THEN pc' = "reg_root" /\ i' = i ELSE pc' = "new" /\ i' = i + 1
    /\ UNCHANGED <<fs, k, heap, cache, routes, listening, reqs>>
    /\ UNCHANGED dictVars

\* ParseFiles returns (nil, err) at the first file that cannot be read or
\* parsed; log.Fatal ends the process
ParseFileFail ==
    /\ pc = "parse"
    /\ ~ParseOk(fs[ParseFilesArgs(Pages[i])[k]], heap[goTpl])
    /\ goTpl' = 0
    /\ parseErr' = TRUE
    /\ pc' = "exited"
    /\ UNCHANGED <<fs, i, k, heap, cache, routes, listening, reqs>>
    /\ UNCHANGED dictVars

\* cache[page] = goTpl, then the next iteration of the loop or its end
Store ==
    /\ pc = "store"
    /\ cache' = [cache EXCEPT ![Pages[i]] = goTpl]
    /\ IF i = Len(Pages) THEN pc' = "reg_root" /\ i' = i ELSE pc' = "new" /\ i' = i + 1
    /\ UNCHANGED <<fs, k, goTpl, heap, parseErr, routes, listening, reqs>>
    /\ UNCHANGED dictVars

(***************************************************************************)
(* Routes and request handlers (main.go:119-135)                           *)
(***************************************************************************)
Paths == {"/", "/about", "/other"}

Methods == {"GET", "POST"}

\* http.ServeMux: "/about" matches that path only, "/" matches every path
\* that no other pattern matches
Mux(path) == IF path = "/about" /\ "/about" \in routes THEN "/about" ELSE "/"

\* map[string]interface{}{"name": "Jan"}
CtxJan == [isNil |-> FALSE, m |-> {<<"name", "Jan">>}]

\* nil
CtxNil == [isNil |-> TRUE, m |-> {}]

\* the cache key read by the handler of "/"
RootKey == "home"

\* mutant of AboutKey: the handler of "/about" reads the home unit
AboutKeyHome == "home"

\* the cache key read by the handler of "/about"
AboutKey == "about"

\* the blocks invoked by the given blocks' definitions in a unit
Calls(files, unit, names) ==
    names \cup UNION {files[unit.tmpl[b]].uses : b \in {x \in names : unit.tmpl[x] # "none"}}

\* the blocks a render of the unit reaches from the layout
Needed(files, unit) ==
    Calls(files, unit, Calls(files, unit, Calls(files, unit, files["layout.tmpl"].uses)))

\* Execute fails with "no such template" when a reached block is undefined
Resolved(files, unit) == \A b \in Needed(files, unit) : unit.tmpl[b] # "none"

\* the functions the escaper adds to the function map of a unit
escaperFuncs == {"_html_template_escapers"}

\* the escaping done by the first Execute of a unit: on success the trees
\* are rewritten and the escaper functions added, on failure the error is
\* kept in the unit; later calls find the unit already escaped
Escape(files, unit) ==
    IF unit.escaped # "no" THEN unit
    ELSE IF Resolved(files, unit)
        THEN [unit EXCEPT !.escaped = "ok", !.funcs = @ \cup escaperFuncs]
        ELSE [unit EXCEPT !.escaped = "err"]

\* t.Execute(w, data) on an escaped unit: the escaping must have succeeded
\* and the writes to w must succeed
ExecuteOk(unit, ioOk) == unit.escaped = "ok" /\ ioOk

\* http.HandleFunc("/", ...)
RegisterRoot ==
    /\ pc = "reg_root"
    /\ routes' = routes \cup {"/"}
    /\ pc' = "reg_about"
    /\ UNCHANGED <<fs, i, k, goTpl, heap, cache, parseErr, listening, reqs>>
    /\ UNCHANGED dictVars

\* http.HandleFunc("/about", ...)
RegisterAbout ==
    /\ pc = "reg_about"
    /\ routes' = routes \cup {"/about"}
    /\ pc' = "listen"
    /\ UNCHANGED <<fs, i, k, goTpl, heap, cache, parseErr, listening, reqs>>
    /\ UNCHANGED dictVars

\* http.ListenAndServe(":8080", nil): serves, or returns an error (ignored)
\* after which main returns
Listen ==
    /\ pc = "listen"
    /\ \E ok \in BOOLEAN :
          IF ok THEN pc' = "serving" /\ listening' = TRUE
                ELSE pc' = "exited" /\ listening' = FALSE
    /\ UNCHANGED <<fs, i, k, goTpl, heap, cache, parseErr, routes, reqs>>
    /\ UNCHANGED dictVars

\* the server accepts a request and starts the handler of the matching
\* pattern in a goroutine of its own
Accept(r) ==
    /\ pc = "serving"
    /\ reqs[r].st \in {"idle", "served", "panic"}
    /\ \E path \in Paths, method \in Methods :
          reqs' = [reqs EXCEPT ![r] =
                      [NoReq EXCEPT !.st = "running", !.path = path,
                                    !.method = method, !.pattern = Mux(path)]]
    /\ UNCHANGED <<fs, pc, i, k, goTpl, heap, cache, parseErr, routes, listening>>
    /\ UNCHANGED dictVars

\* mutant of ExecuteEscape: the handler stores a unit in the cache
ExecuteEscapeWritesCache(r, key, ctx) ==
    /\ pc = "serving"
    /\ reqs[r].st = "running"
    /\ cache' = [cache EXCEPT ![key] = goTpl]
    /\ reqs' = [reqs EXCEPT ![r] = [@ EXCEPT !.st = "executing", !.unit = goTpl, !.page = key,
                                            !.ctxNil = ctx.isNil, !.ctx = ctx.m]]
    /\ UNCHANGED <<fs, pc, i, k, goTpl, heap, parseErr, routes, listening>>
    /\ UNCHANGED dictVars

\* cache[key].Execute(w, ctx), first part: the unit is looked up and, under
\* its mutex, escaped if no Execute has escaped it before; the request is
\* still running afterwards.  Execute on a nil unit panics, which the server
\* recovers for that connection only.
ExecuteEscape(r, key, ctx) ==
    /\ pc = "serving"
    /\ reqs[r].st = "running"
    /\ LET t == cache[key]
           seen == [reqs[r] EXCEPT !.unit = t, !.page = key,
                                   !.ctxNil = ctx.isNil, !.ctx = ctx.m]
       IN IF t = 0
             THEN /\ reqs' = [reqs EXCEPT ![r] = [seen EXCEPT !.st = "panic"]]
                  /\ heap' = heap
             ELSE /\ reqs' = [reqs EXCEPT ![r] = [seen EXCEPT !.st = "executing"]]
                  /\ heap' = [heap EXCEPT ![t] = Escape(fs, @)]
    /\ UNCHANGED <<fs, pc, i, k, goTpl, cache, parseErr, routes, listening>>
    /\ UNCHANGED dictVars

\* cache[key].Execute(w, ctx), second part: the escaped unit is executed and
\* written to w, and Execute returns; the request is served, or err is not
\* nil (escaping had failed, or a write to w failed)
ExecuteRender(r) ==
    /\ pc = "serving"
    /\ reqs[r].st = "executing"
    /\ \E ioOk \in BOOLEAN :
          reqs' = [reqs EXCEPT ![r].st =
                      IF ExecuteOk(heap[reqs[r].unit], ioOk) THEN "served" ELSE "failed"]
    /\ UNCHANGED <<fs, pc, i, k, goTpl, heap, cache, parseErr, routes, listening>>
    /\ UNCHANGED dictVars

\* mutant of Fatal: the render error is answered with an error response and
\* the process keeps running
FatalRespond(r) ==
    /\ pc = "serving"
    /\ reqs[r].st = "failed"
    /\ reqs' = [reqs EXCEPT ![r].st = "served"]
    /\ UNCHANGED <<fs, pc, i, k, goTpl, heap, cache, parseErr, routes, listening>>
    /\ UNCHANGED dictVars

\* if err != nil { log.Fatal(...) }: the handler whose render failed logs
\* and ends the process; until then the other goroutines keep running
Fatal(r) ==
    /\ pc = "serving"
    /\ reqs[r].st = "failed"
    /\ pc' = "exited"
    /\ UNCHANGED <<fs, i, k, goTpl, heap, cache, parseErr, routes, listening, reqs>>
    /\ UNCHANGED dictVars

\* the handler registered for "/"
HandleRoot(r) ==
    /\ reqs[r].pattern = "/"
    /\ \/ ExecuteEscape(r, RootKey, CtxJan)
       \/ ExecuteRender(r)
       \/ Fatal(r)

\* the handler registered for "/about"
HandleAbout(r) ==
    /\ reqs[r].pattern = "/about"
    /\ \/ ExecuteEscape(r, AboutKey, CtxNil)
       \/ ExecuteRender(r)
       \/ Fatal(r)

Next ==
    \/ Getwd
    \/ TemplateNew
    \/ Funcs
    \/ ParseFileOk
    \/ ParseFileFail
    \/ Store
    \/ RegisterRoot
    \/ RegisterAbout
    \/ Listen
    \/ \E r \in 1..MaxReq : Accept(r)
    \/ \E r \in 1..MaxReq : HandleRoot(r)
    \/ \E r \in 1..MaxReq : HandleAbout(r)

Spec == Init /\ [][Next]_vars

(***************************************************************************)
(* dict applied to every argument list of bounded length                   *)
(***************************************************************************)
InitDict ==
    /\ fs = RepoFs
    /\ InitMain
    /\ args \in SeqsUpTo(MaxArgs)
    /\ result = NoResult
    /\ dpc = "call"

\* one call of dict with the arguments chosen initially
DictCall ==
    /\ dpc = "call"
    /\ result' = dict(args)
    /\ dpc' = "done"
    /\ UNCHANGED args
    /\ UNCHANGED mainVars

NextDict == DictCall

SpecDict == InitDict /\ [][NextDict]_vars

\* a handler goroutine whose render failed is scheduled and reaches os.Exit
SpecLive == Spec /\ WF_vars(\E r \in 1..MaxReq : Fatal(r))

(***************************************************************************)
(* Properties                                                              *)
(***************************************************************************)
Range(seq) == {seq[j] : j \in 1..Len(seq)}

Slots == 1..MaxReq

\* C1: once the server listens, the cache holds a fully composed unit for
\* every page of the page list, the keys read by the two handlers are in the
\* page list, and no handler has looked up a missing (nil) unit.
StartupComplete ==
    listening =>
        /\ \A p \in Range(Pages) :
              /\ cache[p] # 0
              /\ heap[cache[p]].parsed = ParseFilesArgs(p)
        /\ {"home", "about"} \subseteq Range(Pages)
        /\ \A r \in Slots :
              /\ reqs[r].st # "panic"
              /\ reqs[r].st \in {"executing", "served", "failed"} => reqs[r].unit # 0

StartupCompleteWitness ==
    /\ listening
    /\ \E r \in Slots : reqs[r].st = "served" /\ reqs[r].pattern = "/about"
    /\ \E r \in Slots : reqs[r].st = "served" /\ reqs[r].pattern = "/"

\* C2: after a fragment of any page failed to parse, the process has ended,
\* no route was registered, the server never listened and no request was
\* accepted, also when an earlier page is already in the cache.
CompositionFailureFatal ==
    parseErr =>
        /\ pc = "exited"
        /\ routes = {}
        /\ ~listening
        /\ \A r \in Slots : reqs[r].st = "idle"

CompositionFailureFatalWitness ==
    /\ parseErr
    /\ Pages[i] = "about"
    /\ cache["home"] # 0

\* C3 as stated: once a render has failed, no request is served to
\* completion any more, requests in flight included.
NoServeAfterRenderFailure ==
    [][(\E r \in Slots : reqs[r].st = "failed") =>
          \A q \in Slots : reqs'[q].st = "served" => reqs[q].st = "served"]_vars

\* C3 amended: the handler whose render failed never answers its request,
\* the only step it takes is to end the process, and once the process has
\* ended no request changes state; under fair scheduling of the failed
\* handler the process does end after every render failure.
RenderFailureAborts ==
    /\ [][/\ \A r \in Slots :
                reqs[r].st = "failed" => reqs'[r] = reqs[r]
          /\ (pc = "serving" /\ pc' # "serving") =>
                (pc' = "exited" /\ \E r \in Slots : reqs[r].st = "failed")
          /\ pc = "exited" => (reqs' = reqs /\ pc' = "exited")]_vars
    /\ ((\E r \in Slots : reqs[r].st = "failed") ~> (pc = "exited"))

RenderFailureAbortsWitness ==
    /\ pc = "exited"
    /\ \E r \in Slots : reqs[r].st = "failed" /\ reqs[r].pattern = "/"
    /\ \E r \in Slots : reqs[r].st = "served" /\ reqs[r].pattern = "/about"

KeyPositions(values) == {j \in 1..Len(values) : j % 2 = 1}

InvalidArgs(values) ==
    \/ Len(values) % 2 = 1
    \/ \E j \in KeyPositions(values) : values[j].t # "string"

\* C4: dict returns an error and a nil map exactly when the number of
\* arguments is odd or some key-position argument is not a string; otherwise
\* (the empty argument list included) it returns a map and no error.
DictFailsIffInvalid ==
    dpc = "done" =>
        /\ (result.err # "") <=> InvalidArgs(args)
        /\ (result.err # "") => result.isNil
        /\ (result.err = "") => ~result.isNil

DictFailsIffInvalidWitness ==
    /\ dpc = "done"
    /\ Len(args) = 4
    /\ args[1].t = "string"
    /\ args[3].t # "string"
    /\ result.err = "dict keys must be strings"

LastIndex(values, key) ==
    CHOOSE j \in KeyPositions(values) :
        /\ values[j].s = key
        /\ \A h \in KeyPositions(values) : values[h].s = key => h <= j

\* C5: for an even number of arguments with string keys, the keys of the
\* returned map are exactly the key-position arguments and every key maps
\* to the argument that follows its last occurrence, whatever its type.
DictResult ==
    (dpc = "done" /\ ~InvalidArgs(args)) =>
        /\ result.err = ""
        /\ DOMAIN result.m = {args[j].s : j \in KeyPositions(args)}
        /\ \A key \in DOMAIN result.m : result.m[key] = args[LastIndex(args, key) + 1]

DictResultWitness ==
    /\ dpc = "done"
    /\ args = <<StrVal("a"), IntVal(1), StrVal("a"), NilVal>>
    /\ result.m = [x \in {"a"} |-> NilVal]

\* the composition of page p has been decided: stored, or failed
Decided(p) == cache[p] # 0 \/ (parseErr /\ Pages[i] = p)

Fragments(p) == {"sidebar.tmpl", "headline.tmpl", PageFile(p)}

DefinedExactlyOnce(p, b) == Cardinality({f \in Fragments(p) : b \in fs[f].defs}) = 1

AllFilesOk(p) == \A f \in Range(ParseFilesArgs(p)) : fs[f].status = "ok"

\* C6 as stated, for files that can all be read and parsed: composing p
\* succeeds if and only if each of "main" and "sidebar" is defined by exactly
\* one of the sidebar, headline and page fragments.
ComposeIffBlocksDefinedOnce ==
    \A p \in PageIds :
        (Decided(p) /\ AllFilesOk(p)) =>
            (cache[p] # 0 <=> \A b \in {"main", "sidebar"} : DefinedExactlyOnce(p, b))

\* C6 amended: composing p succeeds if and only if all four files can be
\* read and parsed, however many fragments define a block; a unit in which
\* "main" or "sidebar" is defined by no fragment is cached all the same and
\* every render of it fails.
ComposeIffFilesParse ==
    /\ \A p \in PageIds : Decided(p) => (cache[p] # 0 <=> AllFilesOk(p))
    /\ \A r \in Slots :
          (/\ reqs[r].st = "served"
           /\ reqs[r].page \in PageIds) =>
              \A b \in {"main", "sidebar"} :
                  \E f \in Fragments(reqs[r].page) : b \in fs[f].defs

ComposeIffFilesParseWitness ==
    /\ cache["home"] # 0
    /\ \A f \in Fragments("home") : "sidebar" \notin fs[f].defs
    /\ \E r \in Slots : reqs[r].st = "failed" /\ reqs[r].page = "home"

\* C7: a request to "/" renders the cached "home" unit with {"name": "Jan"},
\* a request to "/about" renders the cached "about" unit with nil; neither
\* renders the other page's unit, whatever the method of the request.
RouteTable ==
    \A r \in Slots :
        reqs[r].st \in {"executing", "served", "failed"} =>
            /\ reqs[r].path = "/" =>
                  /\ reqs[r].page = "home"
                  /\ reqs[r].unit = cache["home"]
                  /\ reqs[r].unit # cache["about"]
                  /\ ~reqs[r].ctxNil
                  /\ reqs[r].ctx = {<<"name", "Jan">>}
            /\ reqs[r].path = "/about" =>
                  /\ reqs[r].page = "about"
                  /\ reqs[r].unit = cache["about"]
                  /\ reqs[r].unit # cache["home"]
                  /\ reqs[r].ctxNil
                  /\ reqs[r].ctx = {}

RouteTableWitness ==
    /\ \E r \in Slots :
          reqs[r].st = "served" /\ reqs[r].path = "/" /\ reqs[r].method = "GET"
    /\ \E r \in Slots :
          reqs[r].st = "served" /\ reqs[r].path = "/about" /\ reqs[r].method = "GET"

\* C8: the cache is written only by the startup loop, before the server
\* listens and while no request exists; while the server listens the cache
\* map (its keys and the unit under each key) stays as it is, whatever the
\* handlers do.
CacheWriteOnce ==
    [][/\ cache' # cache =>
             /\ pc = "store"
             /\ ~listening
             /\ \A r \in Slots : reqs[r].st = "idle"
       /\ listening => cache' = cache]_vars

CacheWriteOnceWitness ==
    /\ listening
    /\ \E r \in Slots : reqs[r].st = "executing" /\ reqs[r].pattern = "/"
    /\ \E r \in Slots : reqs[r].st = "running" /\ reqs[r].pattern = "/about"
    /\ heap[cache["home"]].escaped = "ok"
    /\ heap[cache["about"]].escaped = "no"

\* C9: a file is parsed only into a unit named "layout.tmpl" that already
\* has dict in its function map, and a unit is in the cache only after its
\* four fragments were parsed into it, in the order of the ParseFiles call.
RegistryBeforeParsing ==
    /\ [][\A u \in 1..Len(heap) :
             heap'[u].parsed # heap[u].parsed =>
                 /\ "dict" \in heap[u].funcs
                 /\ heap[u].name = "layout.tmpl"]_vars
    /\ [](\A p \in PageIds :
             cache[p] # 0 =>
                 /\ heap[cache[p]].parsed = <<"layout.tmpl", "sidebar.tmpl", PageFile(p), "headline.tmpl">>
                 /\ "dict" \in heap[cache[p]].funcs)

RegistryBeforeParsingWitness ==
    /\ pc = "parse"
    /\ k = 3
    /\ Pages[i] = "about"
    /\ cache["home"] # 0
    /\ "dict" \in heap[goTpl].funcs

\* C10: a cached unit is never changed by the composition of another page,
\* and after startup the "main" block of each page's unit is the one of that
\* page's own fragment (when that fragment defines it and the headline
\* fragment, parsed after it, does not).
PerPageIsolation ==
    /\ [][\A p \in PageIds :
             cache[p] # 0 =>
                 /\ cache'[p] = cache[p]
                 /\ ~listening => heap'[cache[p]] = heap[cache[p]]
                 /\ heap'[cache[p]].parsed = heap[cache[p]].parsed
                 /\ heap'[cache[p]].tmpl = heap[cache[p]].tmpl]_vars
    /\ [](\A p \in PageIds :
             (/\ cache[p] # 0
              /\ "main" \in fs[PageFile(p)].defs
              /\ "main" \notin fs["headline.tmpl"].defs) =>
                 heap[cache[p]].tmpl["main"] = PageFile(p))
    /\ [](cache["home"] # 0 /\ cache["about"] # 0 => cache["home"] # cache["about"])

PerPageIsolationWitness ==
    /\ pc = "serving"
    /\ heap[cache["home"]].tmpl["main"] = "home.tmpl"
    /\ heap[cache["about"]].tmpl["main"] = "about.tmpl"

====
